---------------------------- MODULE Spec2Model ----------------------------
(***************************************************************************)
(* A model of libtql/number_theory: the modular ring type Modular<mod>     *)
(* (number_theory/modular.h), the extended Euclidean algorithm it relies   *)
(* on (number_theory/numeric.h), the safety utilities                      *)
(* (number_theory/utility.h) and the two revisions of the Euler sieve      *)
(* (number_theory/sieve.h, exclusive limit; number_theory/prime.h,         *)
(* inclusive limit).                                                       *)
(*                                                                         *)
(* Fixed-width integer types are modelled by a record                      *)
(* [signed, width]; widths are scaled down so that every value of a type   *)
(* can be enumerated, and every result is reduced to the width of the      *)
(* type that holds it in the source.                                       *)
(***************************************************************************)
EXTENDS Integers, Sequences, FiniteSets, TLC

VARIABLES
    \* ---- Modular<mod> (modular.h) ----
    T,                  \* Modular::type, the base integer type
    modulus,            \* Modular::modulus, the compile-time modulus
    value_,             \* Modular::value_ of each live instance
    call,               \* the last Modular operation and what it computed
    \* ---- EulerSieve (sieve.h / prime.h) ----
    header,             \* which revision of EulerSieve is instantiated
    ST,                 \* EulerSieve::type, the number type T of the sieve
    U,                  \* the multiplication type (U / MultType), unsigned
    num_limit,          \* the argument of the constructor
    num_limit_,         \* EulerSieve::num_limit_
    min_prime_factor_,  \* EulerSieve::min_prime_factor_ (index -> entry)
    primes_,            \* EulerSieve::primes_
    pc,                 \* position of the constructor / of the caller
    num,                \* the outer loop counter of the constructor
    idx,                \* position of the range-for over primes_ (1-based)
    thrown,             \* the exception that ended the constructor, if any
    query,              \* the last min_prime_factor() call and its outcome
    write_count,        \* how often each entry of min_prime_factor_ was written
    last_write,         \* the last assignment to an entry of min_prime_factor_
    \* ---- Sieve (prime.h), the sieve of Eratosthenes ----
    is_prime_,          \* Sieve::is_prime_ (index -> flag)
    sieve_i,            \* the outer loop counter i of the constructor
    sieve_j,            \* the inner loop counter j of the constructor
    \* ---- the functions of numeric.h and utility.h ----
    NT,                 \* the integer type T the function is instantiated with
    npc,                \* position inside the running function
    ret,                \* the last call: its arguments and its outcome
    abs_x,              \* iroot: abs_x
    y_limit,            \* iroot: y_limit
    y_min,              \* iroot: y_min
    y_max,              \* iroot: y_max
    y_mid,              \* iroot: the last y_mid and the value of pow(y_mid, n)
    current,            \* binary_accumulate: current
    result              \* binary_accumulate: the bits operation was given

vars == <<T, modulus, value_, call,
          header, ST, U, num_limit, num_limit_, min_prime_factor_, primes_, pc,
          num, idx, thrown, query, write_count, last_write,
          is_prime_, sieve_i, sieve_j,
          NT, npc, ret, abs_x, y_limit, y_min, y_max, y_mid, current, result>>

modularVars == <<T, modulus, value_, call>>
sieveVars == <<header, ST, U, num_limit, num_limit_, min_prime_factor_,
               primes_, pc, num, idx, thrown, query, write_count, last_write>>
boolSieveVars == <<is_prime_, sieve_i, sieve_j>>
numericVars == <<NT, npc, ret, abs_x, y_limit, y_min, y_max, y_mid, current,
                 result>>

---------------------------------------------------------------------------
(* Bounds of the model.                                                    *)

\* The widest base type Modular is instantiated with, in bits.
MaxWidth == 6
\* The largest modulus Modular is instantiated with.
MaxModulus == 7
\* The width of int and unsigned int, in bits (scaled down).
IntWidth == 8
\* The largest limit an EulerSieve is constructed with.
MaxLimit == 100
\* The largest magnitude of the ordinary arguments of the numeric functions
\* (the values next to the extremes of a type are arguments as well).
MaxOperand == 12
\* The largest root index iroot is called with.
MaxRoot == 17

---------------------------------------------------------------------------
(* Fixed-width integer types.                                              *)

IntType(s, w) == [signed |-> s, width |-> w]

\* std::numeric_limits<T>::digits
digits(t) == IF t.signed THEN t.width - 1 ELSE t.width
\* std::numeric_limits<T>::min() and max()
MinOf(t) == IF t.signed THEN -(2 ^ (t.width - 1)) ELSE 0
MaxOf(t) == 2 ^ digits(t) - 1
RangeOf(t) == MinOf(t) .. MaxOf(t)
\* std::make_signed_t<T>, std::make_unsigned_t<T>
make_signed_t(t) == IntType(TRUE, t.width)
make_unsigned_t(t) == IntType(FALSE, t.width)

\* Conversion of the mathematical integer v to the type t (modulo 2^width).
Wrap(v, t) ==
    LET m == v % (2 ^ t.width)
    IN  IF t.signed /\ m >= 2 ^ (t.width - 1) THEN m - 2 ^ t.width ELSE m

\* The C++ remainder x % y for y > 0: truncated toward zero, sign of x.
TruncRem(x, y) == IF x >= 0 THEN x % y ELSE -((-x) % y)

RECURSIVE bit_width(_)
\* std::bit_width of a non-negative value.
bit_width(x) == IF x = 0 THEN 0 ELSE 1 + bit_width(x \div 2)

RECURSIVE GCD(_, _)
\* The mathematical greatest common divisor of two non-negative integers.
GCD(a, b) == IF b = 0 THEN a ELSE GCD(b, a % b)

---------------------------------------------------------------------------
(* number_theory/utility.h                                                 *)

\* numeric_cast<t>(number): the error it throws, if any.
numeric_cast_error(number, t) ==
    IF number \in RangeOf(t) THEN "none" ELSE "range_error"

\* sign(x)
sign(x) == IF x = 0 THEN 0 ELSE IF x > 0 THEN 1 ELSE -1

\* unsigned_abs(x) evaluates (x < 0 ? 0u - x : x).  When T is no wider than
\* unsigned int the subtraction is done in unsigned int and cannot overflow.
\* When T is signed and wider than unsigned int, 0u is converted to T and the
\* subtraction is a signed one: it overflows for the minimum of T, which is
\* undefined behaviour.
unsigned_abs_overflows(x, t) ==
    t.signed /\ t.width > IntWidth /\ x = MinOf(t)

\* The value of unsigned_abs(x) where it is defined.
unsigned_abs(x, t) ==
    IF x < 0
    THEN IF t.width > IntWidth
         THEN Wrap(0 - x, make_unsigned_t(t))
         ELSE Wrap(Wrap(0 - x, IntType(FALSE, IntWidth)), make_unsigned_t(t))
    ELSE Wrap(x, make_unsigned_t(t))

\* Every value unsigned_abs(x) can produce: any value of the unsigned type
\* when the evaluation is undefined.
unsigned_abs_outcomes(x, t) ==
    IF unsigned_abs_overflows(x, t)
    THEN RangeOf(make_unsigned_t(t))
    ELSE {unsigned_abs(x, t)}

---------------------------------------------------------------------------
(* number_theory/numeric.h: exgcd                                          *)

\* A signed result held in Signed_T: narrow types are computed in int and
\* converted back (reduced modulo 2^width); for int and wider types a result
\* out of range is a signed overflow.
SignedOverflows(v, t) ==
    t.width >= IntWidth /\ v \notin RangeOf(make_signed_t(t))

\* The body of the while loop with the coefficient update added instead of
\* subtracted.
exgcd_step_added(ta, tb, xa, ya, xb, yb, t) ==
    LET St == make_signed_t(t)
        Ut == make_unsigned_t(t)
        q  == ta \div tb
        tc == Wrap(ta - Wrap(q, Ut) * tb, Ut)
        xc == xa + q * xb
        yc == ya + q * yb
    IN  [err |-> IF numeric_cast_error(q, St) # "none" THEN "range_error"
                 ELSE IF SignedOverflows(xc, t) \/ SignedOverflows(yc, t)
                 THEN "signed_overflow"
                 ELSE "none",
         ta |-> tb, tb |-> tc,
         xa |-> xb, xb |-> Wrap(xc, St),
         ya |-> yb, yb |-> Wrap(yc, St)]

\* The body of the while loop of exgcd: the state after one iteration, and
\* the error that stops it (numeric_cast throws range_error when the quotient
\* does not fit Signed_T).
exgcd_step(ta, tb, xa, ya, xb, yb, t) ==
    LET St == make_signed_t(t)
        Ut == make_unsigned_t(t)
        q  == ta \div tb
        tc == Wrap(ta - Wrap(q, Ut) * tb, Ut)
        xc == xa - q * xb
        yc == ya - q * yb
    IN  [err |-> IF numeric_cast_error(q, St) # "none" THEN "range_error"
                 ELSE IF SignedOverflows(xc, t) \/ SignedOverflows(yc, t)
                 THEN "signed_overflow"
                 ELSE "none",
         ta |-> tb, tb |-> tc,
         xa |-> xb, xb |-> Wrap(xc, St),
         ya |-> yb, yb |-> Wrap(yc, St)]

RECURSIVE exgcd_loop(_, _, _, _, _, _, _)
\* The loop after an iteration left the state n: stop at its error, or test
\* the condition again.
exgcd_after(n, xa, ya, t) ==
    IF n.err # "none"
    THEN [err |-> n.err, xa |-> xa, ya |-> ya]
    ELSE exgcd_loop(n.ta, n.tb, n.xa, n.ya, n.xb, n.yb, t)

\* The while loop of exgcd; the result is [err, xa, ya].
exgcd_loop(ta, tb, xa, ya, xb, yb, t) ==
    IF tb = 0
    THEN [err |-> "none", xa |-> xa, ya |-> ya]
    ELSE exgcd_after(exgcd_step(ta, tb, xa, ya, xb, yb, t), xa, ya, t)

\* The return statement of exgcd: the pair (sign(a) * xa, sign(b) * ya) as
\* a pair of Signed_T.
exgcd_return(x, y, t) ==
    IF SignedOverflows(x, t) \/ SignedOverflows(y, t)
    THEN [err |-> "signed_overflow", x |-> 0, y |-> 0]
    ELSE [err |-> "none", x |-> Wrap(x, make_signed_t(t)),
          y |-> Wrap(y, make_signed_t(t))]

\* exgcd once its loop has ended with r.
exgcd_end(r, a, b, t) ==
    IF r.err # "none"
    THEN [err |-> r.err, x |-> 0, y |-> 0]
    ELSE exgcd_return(sign(a) * r.xa, sign(b) * r.ya, t)

\* exgcd(a, b) for arguments of type t; the result is [err, x, y].
exgcd(a, b, t) ==
    IF unsigned_abs_overflows(a, t) \/ unsigned_abs_overflows(b, t)
    THEN [err |-> "signed_overflow", x |-> 0, y |-> 0]
    ELSE exgcd_end(exgcd_loop(unsigned_abs(a, t), unsigned_abs(b, t),
                              1, 0, 0, 1, t), a, b, t)

---------------------------------------------------------------------------
(* number_theory/utility.h: binary_accumulate; number_theory/numeric.h:    *)
(* pow and iroot                                                           *)

\* int, and uint64_t, the type iroot computes in.
int == IntType(TRUE, IntWidth)
uint64_t == IntType(FALSE, 2 * IntWidth)

\* The C++ quotient x / y for y > 0: truncated toward zero.
TruncDiv(x, y) == IF x >= 0 THEN x \div y ELSE -((-x) \div y)

\* The product of two values of the unsigned type u, reduced modulo
\* 2^width; it is computed in two halves so that no intermediate value
\* exceeds 2^(3 * width / 2).
UMul(x, y, u) ==
    LET s == 2 ^ (u.width \div 2)
        m == 2 ^ u.width
    IN  (((x * (y \div s)) % (m \div s)) * s + x * (y % s)) % m

\* binary_accumulate, the body of its while loop: the bit handed to
\* operation, and the next value of current.
accumulate_bit(cur) == TruncRem(cur, 2) # 0
accumulate_next(cur) == TruncDiv(cur, 2)

\* pow, the lambda update: state is the pair (result, power) over the
\* unsigned type t.
pow_update(bit, state, t) ==
    [result |-> IF bit THEN UMul(state.result, state.power, t)
                       ELSE state.result,
     power  |-> UMul(state.power, state.power, t)]

RECURSIVE pow_accumulate(_, _, _)
\* pow, the call binary_accumulate(abs_exp, (1, base), update).
pow_accumulate(cur, state, t) ==
    IF cur = 0 THEN state
    ELSE pow_accumulate(accumulate_next(cur),
                        pow_update(accumulate_bit(cur), state, t), t)

\* pow, from the result of binary_accumulate to the return.
pow_end(state, exponent) ==
    IF exponent < 0 THEN 1 \div state.result ELSE state.result

\* pow(base, exponent) for a base of the unsigned type t and an exponent of
\* type int.
pow(base, exponent, t) ==
    pow_end(pow_accumulate(unsigned_abs(exponent, int),
                           [result |-> 1, power |-> base], t), exponent)

RECURSIVE PowFits(_, _, _)
\* TRUE when y^n <= cap, for y >= 0, n >= 0 and cap >= 0.
PowFits(y, n, cap) ==
    IF n = 0 THEN cap >= 1
    ELSE y = 0 \/ PowFits(y, n - 1, cap \div y)

\* iroot: max_size, and the entry y_limits[n] of the table, "the maximum y
\* that y^n does not overflow" in uint64_t; the entries for n < 2 are 0.
max_size == digits(uint64_t)
y_limits(n) ==
    IF n < 2 THEN 0
    ELSE CHOOSE y \in 1 .. 2 ^ (digits(uint64_t) \div 2) :
            /\ PowFits(y, n, MaxOf(uint64_t))
            /\ ~PowFits(y + 1, n, MaxOf(uint64_t))

\* iroot reporting a negative n as a domain error like n = 0.
iroot_error_domain_only(x, n) ==
    IF n <= 0 THEN "domain_error"
    ELSE IF x < 0 /\ n % 2 = 0 THEN "domain_error"
    ELSE "none"

\* iroot, the three tests it starts with: the exception thrown, if any.
iroot_error(x, n) ==
    IF n < 0 THEN "invalid_argument"
    ELSE IF n = 0 THEN "domain_error"
    ELSE IF x < 0 /\ n % 2 = 0 THEN "domain_error"
    ELSE "none"

\* std::midpoint(a, b) of two unsigned values with a <= b.
midpoint(a, b) == a + (b - a) \div 2

---------------------------------------------------------------------------
(* number_theory/modular.h: Modular<mod>                                   *)

\* The instantiations of Modular the model explores: signed and unsigned base
\* types of every width up to MaxWidth, and every positive modulus the type
\* can represent (the static_assert of the class rejects modulus <= 0).
ModularTypes == {IntType(s, w) : s \in BOOLEAN, w \in 3..MaxWidth}
Moduli(t) == {m \in 1..MaxModulus : m <= MaxOf(t)}

\* The live instances of the ring type.
Inst == {"a", "b"}

\* normalize without the correction of a negative remainder.
normalize_no_correction(x, m) ==
    IF x < 0 \/ x >= m THEN TruncRem(x, m) ELSE x

\* normalize with the upper test off by one: modulus itself is left alone.
normalize_off_by_one(x, m) ==
    IF x < 0 \/ x > m
    THEN LET y == TruncRem(x, m)
         IN  IF y < 0 THEN y + m ELSE y
    ELSE x

\* modular_internal::normalize(x, modulus)
normalize(x, m) ==
    IF x < 0 \/ x >= m
    THEN LET y == TruncRem(x, m)
         IN  IF y < 0 THEN y + m ELSE y
    ELSE x

\* Modular::type_width and Modular::modulus_width
type_width(t) == digits(t)
modulus_width(m, t) == bit_width(Wrap(m, make_unsigned_t(t)))

\* Modular::check_addition_overflow: TRUE when the static_assert passes.
check_addition_overflow(m, t) == modulus_width(m, t) + 1 <= type_width(t)

\* The multiplication check against the width instead of the value bits.
check_multiplication_overflow_lax(m, t) ==
    modulus_width(m, t) * 2 <= t.width + 1

\* Modular::check_multiplication_overflow: TRUE when the static_assert passes.
check_multiplication_overflow(m, t) == modulus_width(m, t) * 2 <= type_width(t)

\* Modular::set(value), and the constructor Modular(value), which calls it:
\* the value_ they store.
set(value, m) == normalize(value, m)

\* add with the reduction test off by one: a sum equal to modulus is kept.
add_new_value_off_by_one(value, rhs, m, t) ==
    LET new_value == Wrap(value + rhs, t)
    IN  IF new_value > m THEN new_value - m ELSE new_value

\* Modular::add: new_value after the conditional subtraction.
add_new_value(value, rhs, m, t) ==
    LET new_value == Wrap(value + rhs, t)
    IN  IF new_value >= m THEN new_value - m ELSE new_value

\* Modular::add: the value_ of the result.
add(value, rhs, m, t) == set(add_new_value(value, rhs, m, t), m)

\* negate with the operands of the subtraction exchanged.
negate_exchanged(value, m, t) ==
    IF value = 0 THEN value ELSE set(Wrap(value - m, t), m)

\* Modular::negate: the value_ of the result.
negate(value, m, t) ==
    IF value = 0 THEN value ELSE set(Wrap(m - value, t), m)

\* Modular::subtract: the value_ of the result.
subtract(value, rhs, m, t) == add(value, negate(rhs, m, t), m, t)

\* Modular::multiply: the value_ of the result.
multiply(value, rhs, m, t) == set(Wrap(value * rhs, t), m)

\* inverse_mod once exgcd has returned r: a domain error unless the
\* coefficients combine to 1, and otherwise the coefficient of x brought
\* into [0, modulus).
inverse_mod_end(r, x, m) ==
    IF r.err # "none" THEN [err |-> r.err, value |-> 0]
    ELSE IF r.x * x + r.y * m # 1
    THEN [err |-> "domain_error", value |-> 0]
    ELSE [err |-> "none", value |-> normalize(r.x, m)]

\* inverse_mod(x, modulus): the extended Euclidean algorithm applied to
\* (x, modulus).  The result is [err, value].
inverse_mod(x, m, t) == inverse_mod_end(exgcd(x, m, t), x, m)

\* Modular::inverse: [err, value].
inverse(value, m, t) == inverse_mod(value, m, t)

\* divide once inverse() has returned inv.
divide_end(inv, value, m, t) ==
    IF inv.err # "none" THEN inv
    ELSE [err |-> "none", value |-> multiply(value, inv.value, m, t)]

\* Modular::divide: value * inverse(rhs); [err, value].
divide(value, rhs, m, t) == divide_end(inverse(rhs, m, t), value, m, t)

\* What an operation did to the instance inst: the receiver before it (lhs,
\* 0 where the operation does not read it), its operand (rhs),
\* the intermediate result as a mathematical integer (raw), the value handed
\* to the constructor of the result (mid), the value_ of the result (res) and
\* the error thrown (err).
Call(op, inst, lhs, rhs, raw, mid, res, err) ==
    [op |-> op, inst |-> inst, lhs |-> lhs, rhs |-> rhs, raw |-> raw,
     mid |-> mid, res |-> res, err |-> err]

\* Modular(value): the constructor, followed by the defaulted (move)
\* assignment to the instance i, as in a = T(3).
Construct(i, x) ==
    /\ value_' = [value_ EXCEPT ![i] = set(x, modulus)]
    /\ call' = Call("construct", i, 0, x, x, x, set(x, modulus), "none")
    /\ UNCHANGED <<T, modulus>>
    /\ UNCHANGED <<sieveVars, boolSieveVars, numericVars>>

\* i.set(x), also the body of operator>>.
Set(i, x) ==
    /\ value_' = [value_ EXCEPT ![i] = set(x, modulus)]
    /\ call' = Call("set", i, 0, x, x, x, set(x, modulus), "none")
    /\ UNCHANGED <<T, modulus>>
    /\ UNCHANGED <<sieveVars, boolSieveVars, numericVars>>

\* i = j: the defaulted copy assignment.
Assign(i, j) ==
    /\ value_' = [value_ EXCEPT ![i] = value_[j]]
    /\ call' = Call("assign", i, 0, value_[j], value_[j], value_[j],
                    value_[j], "none")
    /\ UNCHANGED <<T, modulus>>
    /\ UNCHANGED <<sieveVars, boolSieveVars, numericVars>>

\* i += j, i.e. i = i.add(j); only instantiable when the static_assert of
\* check_addition_overflow passes.
Add(i, j) ==
    /\ check_addition_overflow(modulus, T)
    /\ value_' = [value_ EXCEPT ![i] = add(value_[i], value_[j], modulus, T)]
    /\ call' = Call("add", i, value_[i], value_[j], value_[i] + value_[j],
                    add_new_value(value_[i], value_[j], modulus, T),
                    add(value_[i], value_[j], modulus, T), "none")
    /\ UNCHANGED <<T, modulus>>
    /\ UNCHANGED <<sieveVars, boolSieveVars, numericVars>>

\* i = -i, i.e. i = i.negate().
Negate(i) ==
    /\ value_' = [value_ EXCEPT ![i] = negate(value_[i], modulus, T)]
    /\ call' = LET raw == IF value_[i] = 0 THEN 0 ELSE modulus - value_[i]
               IN  Call("negate", i, value_[i], value_[i], raw, Wrap(raw, T),
                        negate(value_[i], modulus, T), "none")
    /\ UNCHANGED <<T, modulus>>
    /\ UNCHANGED <<sieveVars, boolSieveVars, numericVars>>

\* i -= j, i.e. i = i.subtract(j) = i.add(j.negate()).
Subtract(i, j) ==
    /\ check_addition_overflow(modulus, T)
    /\ value_' = [value_ EXCEPT
                    ![i] = subtract(value_[i], value_[j], modulus, T)]
    /\ call' = LET neg == negate(value_[j], modulus, T)
               IN  Call("subtract", i, value_[i], value_[j], value_[i] + neg,
                        add_new_value(value_[i], neg, modulus, T),
                        subtract(value_[i], value_[j], modulus, T), "none")
    /\ UNCHANGED <<T, modulus>>
    /\ UNCHANGED <<sieveVars, boolSieveVars, numericVars>>

\* i *= j, i.e. i = i.multiply(j); only instantiable when the static_assert
\* of check_multiplication_overflow passes.
Multiply(i, j) ==
    /\ check_multiplication_overflow(modulus, T)
    /\ value_' = [value_ EXCEPT
                    ![i] = multiply(value_[i], value_[j], modulus, T)]
    /\ call' = Call("multiply", i, value_[i], value_[j], value_[i] * value_[j],
                    Wrap(value_[i] * value_[j], T),
                    multiply(value_[i], value_[j], modulus, T), "none")
    /\ UNCHANGED <<T, modulus>>
    /\ UNCHANGED <<sieveVars, boolSieveVars, numericVars>>

\* ++i and i++: i = i.add(M(1)).
Increment(i) ==
    /\ check_addition_overflow(modulus, T)
    /\ LET one == set(1, modulus)
       IN  /\ value_' = [value_ EXCEPT
                           ![i] = add(value_[i], one, modulus, T)]
           /\ call' = Call("increment", i, value_[i], one, value_[i] + one,
                           add_new_value(value_[i], one, modulus, T),
                           add(value_[i], one, modulus, T), "none")
    /\ UNCHANGED <<T, modulus>>
    /\ UNCHANGED <<sieveVars, boolSieveVars, numericVars>>

\* --i and i--: i = i.subtract(M(1)).
Decrement(i) ==
    /\ check_addition_overflow(modulus, T)
    /\ LET one == set(1, modulus)
           neg == negate(one, modulus, T)
       IN  /\ value_' = [value_ EXCEPT
                           ![i] = subtract(value_[i], one, modulus, T)]
           /\ call' = Call("decrement", i, value_[i], one, value_[i] + neg,
                           add_new_value(value_[i], neg, modulus, T),
                           subtract(value_[i], one, modulus, T), "none")
    /\ UNCHANGED <<T, modulus>>
    /\ UNCHANGED <<sieveVars, boolSieveVars, numericVars>>

\* The assignment i = r of the result r = [err, value] of inverse() or
\* divide(); it does not happen when the call throws.
AssignResult(op, i, rhs, r) ==
    /\ value_' = IF r.err = "none"
                 THEN [value_ EXCEPT ![i] = r.value]
                 ELSE value_
    /\ call' = Call(op, i, value_[i], rhs, r.value, r.value, r.value, r.err)

\* i = i.inverse().
Inverse(i) ==
    /\ AssignResult("inverse", i, value_[i], inverse(value_[i], modulus, T))
    /\ UNCHANGED <<T, modulus>>
    /\ UNCHANGED <<sieveVars, boolSieveVars, numericVars>>

\* i /= j, i.e. i = i.divide(j).  divide() multiplies, so it needs the
\* multiplication check to pass.
Divide(i, j) ==
    /\ check_multiplication_overflow(modulus, T)
    /\ AssignResult("divide", i, value_[j],
                    divide(value_[i], value_[j], modulus, T))
    /\ UNCHANGED <<T, modulus>>
    /\ UNCHANGED <<sieveVars, boolSieveVars, numericVars>>

---------------------------------------------------------------------------
(* number_theory/sieve.h and number_theory/prime.h: EulerSieve             *)

\* The two revisions of the class: EulerSieve<T, U> of sieve.h, whose limit
\* is exclusive, and EulerSieve<T> of prime.h, whose limit is inclusive.
Headers == {"sieve.h", "prime.h"}

\* The number types the sieve is instantiated with: narrower than int, as
\* wide as int, and wider than int.
SieveTypes ==
    {IntType(s, w) : s \in BOOLEAN, w \in {IntWidth \div 2, IntWidth}}
        \cup {IntType(TRUE, IntWidth + 1)}

\* prime.h: using MultType = uint64_t; also the default U of sieve.h.
MultType == IntType(FALSE, 2 * IntWidth)

\* The multiplication types: sieve.h takes U as a template argument (the
\* default, or an unsigned type as wide as int); prime.h fixes MultType.
MultTypes(h) ==
    IF h = "sieve.h" THEN {MultType, IntType(FALSE, IntWidth)} ELSE {MultType}

\* The limits a sieve is constructed with.
Limits(t) == {l \in RangeOf(t) : l >= -1 /\ l <= MaxLimit}

\* The size the constructor gives min_prime_factor_.
table_size(limit, h) == IF h = "sieve.h" THEN limit ELSE limit + 1

\* The exception thrown while the members are initialised: a negative limit
\* is converted to a huge size_t by the vector constructor in sieve.h, and
\* rejected by numeric_cast<size_t> in prime.h.
member_init_error(limit, h) ==
    IF limit >= 0 THEN "none"
    ELSE IF h = "sieve.h" THEN "length_error" ELSE "range_error"

\* The overflow test comparing the width of the limit itself, not twice it.
check_overflow_single(limit, t, u) ==
    bit_width(Wrap(limit, make_unsigned_t(t))) > digits(u)

\* The overflow test of the constructor (check_overflow in prime.h): TRUE
\* when it throws overflow_error.
check_overflow(limit, t, u) ==
    bit_width(Wrap(limit, make_unsigned_t(t))) * 2 > digits(u)

\* The outer loop stopping before the limit in both revisions.
loop_condition_exclusive(n, limit, h) == n < limit

\* The condition of the outer for loop.
loop_condition(n, limit, h) ==
    IF h = "sieve.h" THEN n < limit ELSE n <= limit

\* The inner loop without its first break.
inner_break_never(prime, factor) == FALSE

\* The first break of the inner loop taken one prime too early.
inner_break_early(prime, factor) == prime >= factor

\* The first break of the inner loop.
inner_break(prime, factor) == prime > factor

\* The product computed in a type a quarter as wide as U, where it wraps.
product_wrapped(prime, n, u) ==
    Wrap(Wrap(prime, u) * Wrap(n, u), IntType(FALSE, u.width \div 4))

\* U x = static_cast<U>(prime) * static_cast<U>(num)
product(prime, n, u) == Wrap(Wrap(prime, u) * Wrap(n, u), u)

\* The second break of the inner loop.
product_break(x, limit, u, h) ==
    IF h = "sieve.h" THEN x >= Wrap(limit, u) ELSE x > Wrap(limit, u)

\* EulerSieve::min_prime_factor for a given value of abs_num: [err, value].
min_prime_factor(abs_num, limit, table, t, h) ==
    IF abs_num <= 1 THEN [err |-> "domain_error", value |-> 0]
    ELSE IF (IF h = "sieve.h"
             THEN abs_num >= limit
             ELSE abs_num > Wrap(limit, make_unsigned_t(t)))
    THEN [err |-> "out_of_range", value |-> 0]
    ELSE IF abs_num \in DOMAIN table
    THEN [err |-> "none", value |-> table[abs_num]]
    ELSE [err |-> "out_of_bounds", value |-> 0]

NoQuery == [number |-> 0, abs_num |-> 0, err |-> "idle", value |-> 0]

\* An assignment min_prime_factor_[index] = prime made by the outer loop (if
\* statement) or by the inner loop, while the counter was num.
Write(by, index, prime, n) ==
    [by |-> by, index |-> index, prime |-> prime, num |-> n]
NoWrite == Write("none", 0, 0, 0)

\* The constructor up to the loop: the member initialisers, then the
\* overflow test.
SieveConstruct ==
    /\ pc = "new"
    /\ num_limit_' = num_limit
    /\ IF member_init_error(num_limit, header) # "none"
       THEN /\ pc' = "failed"
            /\ thrown' = member_init_error(num_limit, header)
            /\ UNCHANGED <<min_prime_factor_, num, write_count>>
       ELSE /\ min_prime_factor_' =
                   [n \in 0 .. table_size(num_limit, header) - 1 |-> 0]
            /\ write_count' =
                   [n \in 0 .. table_size(num_limit, header) - 1 |-> 0]
            /\ IF check_overflow(num_limit, ST, U)
               THEN /\ pc' = "failed"
                    /\ thrown' = "overflow_error"
                    /\ UNCHANGED num
               ELSE /\ pc' = "loop"
                    /\ num' = 2
                    /\ UNCHANGED thrown
    /\ UNCHANGED <<header, ST, U, num_limit, primes_, idx, query, last_write>>
    /\ UNCHANGED <<modularVars, boolSieveVars, numericVars>>

\* The test of the outer loop and, when it passes, the if statement that
\* records num as a prime.
SieveOuter ==
    /\ pc = "loop"
    /\ IF loop_condition(num, num_limit_, header)
       THEN /\ pc' = "inner"
            /\ idx' = 1
            /\ IF min_prime_factor_[num] = 0
               THEN /\ primes_' = Append(primes_, num)
                    /\ min_prime_factor_' =
                           [min_prime_factor_ EXCEPT ![num] = num]
                    /\ write_count' = [write_count EXCEPT ![num] = @ + 1]
                    /\ last_write' = Write("outer", num, num, num)
               ELSE UNCHANGED <<primes_, min_prime_factor_, write_count,
                                last_write>>
       ELSE /\ pc' = "done"
            /\ UNCHANGED <<idx, primes_, min_prime_factor_, write_count,
                           last_write>>
    /\ UNCHANGED <<header, ST, U, num_limit, num_limit_, num, thrown, query>>
    /\ UNCHANGED <<modularVars, boolSieveVars, numericVars>>

\* One iteration of the range-for over primes_: leave the loop at its end or
\* at a break, or mark prime * num.
SieveInner ==
    /\ pc = "inner"
    /\ IF idx > Len(primes_)
       THEN /\ pc' = "next"
            /\ UNCHANGED <<idx, min_prime_factor_, thrown, write_count,
                           last_write>>
       ELSE LET prime == primes_[idx]
                x == product(prime, num, U)
            IN  IF inner_break(prime, min_prime_factor_[num])
                     \/ product_break(x, num_limit_, U, header)
                THEN /\ pc' = "next"
                     /\ UNCHANGED <<idx, min_prime_factor_, thrown,
                                    write_count, last_write>>
                ELSE IF x \in DOMAIN min_prime_factor_
                THEN /\ min_prime_factor_' =
                            [min_prime_factor_ EXCEPT ![x] = prime]
                     /\ write_count' = [write_count EXCEPT ![x] = @ + 1]
                     /\ last_write' = Write("inner", x, prime, num)
                     /\ idx' = idx + 1
                     /\ UNCHANGED <<pc, thrown>>
                ELSE /\ pc' = "undefined"
                     /\ thrown' = "out_of_bounds"
                     /\ UNCHANGED <<idx, min_prime_factor_, write_count,
                                    last_write>>
    /\ UNCHANGED <<header, ST, U, num_limit, num_limit_, primes_, num, query>>
    /\ UNCHANGED <<modularVars, boolSieveVars, numericVars>>

\* ++num.  At the maximum of T the counter cannot advance: an unsigned or
\* narrow counter wraps around and a signed one overflows; the loop condition
\* then never fails, so the constructor does not complete ("overrun").
SieveNext ==
    /\ pc = "next"
    /\ IF num = MaxOf(ST)
       THEN /\ pc' = "overrun"
            /\ num' = Wrap(num + 1, ST)
       ELSE /\ pc' = "loop"
            /\ num' = num + 1
    /\ UNCHANGED <<header, ST, U, num_limit, num_limit_, min_prime_factor_,
                   primes_, idx, thrown, query, write_count, last_write>>
    /\ UNCHANGED <<modularVars, boolSieveVars, numericVars>>

\* sieve.min_prime_factor(number) on a constructed sieve; abs_num is any
\* value unsigned_abs(number) can produce.
MinPrimeFactor(number) ==
    /\ pc = "done"
    /\ \E abs_num \in unsigned_abs_outcomes(number, ST) :
         LET r == min_prime_factor(abs_num, num_limit_, min_prime_factor_,
                                   ST, header)
         IN  query' = [number |-> number, abs_num |-> abs_num,
                       err |-> r.err, value |-> r.value]
    /\ pc' = "queried"
    /\ UNCHANGED <<header, ST, U, num_limit, num_limit_, min_prime_factor_,
                   primes_, num, idx, thrown, write_count, last_write>>
    /\ UNCHANGED <<modularVars, boolSieveVars, numericVars>>

\* The caller takes the result (or catches the exception).
Return ==
    /\ pc = "queried"
    /\ pc' = "done"
    /\ query' = NoQuery
    /\ UNCHANGED <<header, ST, U, num_limit, num_limit_, min_prime_factor_,
                   primes_, num, idx, thrown, write_count, last_write>>
    /\ UNCHANGED <<modularVars, boolSieveVars, numericVars>>

---------------------------------------------------------------------------
(* number_theory/prime.h: Sieve, the sieve of Eratosthenes                 *)

\* What an access outside the table can lead to: the access stays inside the
\* storage the vector owns and the constructor goes on, or the program
\* stops.
OutOfBoundsOutcomes == {"continue", "stop"}

\* Sieve::is_prime(number) on the table: [err, value], the value being 1 for
\* true and 0 for false.
is_prime(number, limit, table) ==
    IF number < 0 THEN [err |-> "none", value |-> 0]
    ELSE IF number > limit THEN [err |-> "out_of_range", value |-> 0]
    ELSE IF number \in DOMAIN table
    THEN [err |-> "none", value |-> IF table[number] THEN 1 ELSE 0]
    ELSE [err |-> "out_of_bounds", value |-> 0]

IsPrimeResult(number, r) ==
    [number |-> number, abs_num |-> number, err |-> r.err, value |-> r.value]

\* The constructor of Sieve up to its loop: the member initialisers, then
\* is_prime_[0] = false and is_prime_[1] = false.  The table has
\* num_limit + 1 entries, so the second assignment is outside it when
\* num_limit is 0.
EratosthenesConstruct ==
    /\ pc = "sieve_new"
    /\ num_limit_' = num_limit
    /\ IF numeric_cast_error(num_limit, uint64_t) # "none"
       THEN /\ pc' = "failed"
            /\ thrown' = numeric_cast_error(num_limit, uint64_t)
            /\ UNCHANGED <<is_prime_, sieve_i>>
       ELSE IF 1 \in 0 .. num_limit
       THEN /\ is_prime_' = [n \in 0 .. num_limit |-> n \notin {0, 1}]
            /\ pc' = "sieve_outer"
            /\ sieve_i' = 2
            /\ UNCHANGED thrown
       ELSE /\ is_prime_' = [n \in 0 .. num_limit |-> n # 0]
            /\ thrown' = "out_of_bounds"
            /\ \E outcome \in OutOfBoundsOutcomes :
                  pc' = IF outcome = "continue" THEN "sieve_outer"
                                                ELSE "undefined"
            /\ sieve_i' = 2
    /\ UNCHANGED <<header, ST, U, num_limit, min_prime_factor_, primes_, num,
                   idx, query, write_count, last_write, sieve_j>>
    /\ UNCHANGED <<modularVars, numericVars>>

\* The test of the outer loop, i * i <= num_limit_ in uint64_t, and the if
\* statement that skips a composite i or starts the inner loop at i * i.
EratosthenesOuter ==
    /\ pc = "sieve_outer"
    /\ IF UMul(sieve_i, sieve_i, uint64_t) <= Wrap(num_limit_, uint64_t)
       THEN IF sieve_i \notin DOMAIN is_prime_
            THEN /\ pc' = "undefined"
                 /\ thrown' = "out_of_bounds"
                 /\ UNCHANGED <<sieve_i, sieve_j>>
            ELSE IF ~is_prime_[sieve_i]
            THEN /\ sieve_i' = Wrap(sieve_i + 1, uint64_t)
                 /\ UNCHANGED <<pc, thrown, sieve_j>>
            ELSE /\ sieve_j' = UMul(sieve_i, sieve_i, uint64_t)
                 /\ pc' = "sieve_inner"
                 /\ UNCHANGED <<thrown, sieve_i>>
       ELSE /\ pc' = "sieve_done"
            /\ UNCHANGED <<thrown, sieve_i, sieve_j>>
    /\ UNCHANGED <<header, ST, U, num_limit, num_limit_, min_prime_factor_,
                   primes_, num, idx, query, write_count, last_write,
                   is_prime_>>
    /\ UNCHANGED <<modularVars, numericVars>>

\* The test of the inner loop, j <= num_limit_, and its body
\* is_prime_[j] = false; j += i; at its end, ++i.
EratosthenesInner ==
    /\ pc = "sieve_inner"
    /\ IF sieve_j <= Wrap(num_limit_, uint64_t)
       THEN IF sieve_j \notin DOMAIN is_prime_
            THEN /\ pc' = "undefined"
                 /\ thrown' = "out_of_bounds"
                 /\ UNCHANGED <<sieve_i, sieve_j, is_prime_>>
            ELSE /\ is_prime_' = [is_prime_ EXCEPT ![sieve_j] = FALSE]
                 /\ sieve_j' = Wrap(sieve_j + sieve_i, uint64_t)
                 /\ UNCHANGED <<pc, thrown, sieve_i>>
       ELSE /\ sieve_i' = Wrap(sieve_i + 1, uint64_t)
            /\ pc' = "sieve_outer"
            /\ UNCHANGED <<thrown, sieve_j, is_prime_>>
    /\ UNCHANGED <<header, ST, U, num_limit, num_limit_, min_prime_factor_,
                   primes_, num, idx, query, write_count, last_write>>
    /\ UNCHANGED <<modularVars, numericVars>>

\* sieve.is_prime(number) on a constructed Sieve.
IsPrimeQuery(number) ==
    /\ pc = "sieve_done"
    /\ query' = IsPrimeResult(number, is_prime(number, num_limit_, is_prime_))
    /\ pc' = "sieve_queried"
    /\ UNCHANGED <<header, ST, U, num_limit, num_limit_, min_prime_factor_,
                   primes_, num, idx, thrown, write_count, last_write>>
    /\ UNCHANGED <<is_prime_, sieve_i, sieve_j>>
    /\ UNCHANGED <<modularVars, numericVars>>

\* The caller takes the result (or catches the exception).
EratosthenesReturn ==
    /\ pc = "sieve_queried"
    /\ pc' = "sieve_done"
    /\ query' = NoQuery
    /\ UNCHANGED <<header, ST, U, num_limit, num_limit_, min_prime_factor_,
                   primes_, num, idx, thrown, write_count, last_write>>
    /\ UNCHANGED <<is_prime_, sieve_i, sieve_j>>
    /\ UNCHANGED <<modularVars, numericVars>>

---------------------------------------------------------------------------
(* The functions of number_theory/numeric.h and number_theory/utility.h,   *)
(* called with arguments of every kind.                                    *)

\* The integer types the functions are instantiated with: narrower than int,
\* as wide as int, wider than int, and uint64_t itself.
NumericTypes ==
    {IntType(s, w) : s \in BOOLEAN,
                     w \in {IntWidth \div 2, IntWidth, IntWidth + 1}}
        \cup {uint64_t}

\* The arguments a function is called with: every value of small magnitude,
\* the values next to the extremes of the type, and the values next to the
\* maximum of its signed counterpart.
Operands(t) ==
    LET low  == IF t.signed THEN -MaxOperand ELSE 0
        smax == MaxOf(make_signed_t(t))
    IN  ((low .. MaxOperand)
            \cup {MinOf(t), MinOf(t) + 1, MaxOf(t) - 1, MaxOf(t)}
            \cup {smax - 1, smax, smax + 1}) \cap RangeOf(t)

NoCall == [op |-> "none", a |-> 0, b |-> 0, err |-> "none", x |-> 0, y |-> 0]
NoPower == [y |-> 0, value |-> 0]

\* What a call leaves for the caller: the arguments (a, b), the exception
\* thrown or the undefined behaviour met, and the value(s) returned.
Ret(op, a, b, err, x, y) ==
    [op |-> op, a |-> a, b |-> b, err |-> err, x |-> x, y |-> y]

ExgcdRet(a, b, r) == Ret("exgcd", a, b, r.err, r.x, r.y)

\* auto [x, y] = exgcd(a, b), for the types whose products the model can
\* hold.
Exgcd(a, b) ==
    /\ npc = "idle"
    /\ NT.width <= IntWidth + 1
    /\ ret' = ExgcdRet(a, b, exgcd(a, b, NT))
    /\ npc' = "returned"
    /\ UNCHANGED <<NT, abs_x, y_limit, y_min, y_max, y_mid, current, result>>
    /\ UNCHANGED <<modularVars, sieveVars, boolSieveVars>>

\* iroot(x, n) up to the binary search: the tests, the case n = 1, and the
\* initialisation of the search; abs_x is any value unsigned_abs(x) can
\* produce, and the call is marked when that evaluation is undefined.
IrootCall(x, n) ==
    /\ npc = "idle"
    /\ IF iroot_error(x, n) # "none"
       THEN /\ ret' = Ret("iroot", x, n, iroot_error(x, n), 0, 0)
            /\ npc' = "returned"
            /\ UNCHANGED <<abs_x, y_limit, y_min, y_max>>
       ELSE IF n = 1
       THEN /\ ret' = Ret("iroot", x, n, "none", x, 0)
            /\ npc' = "returned"
            /\ UNCHANGED <<abs_x, y_limit, y_min, y_max>>
       ELSE /\ y_limit' = (IF n >= max_size THEN 1 ELSE y_limits(n))
            /\ abs_x' \in unsigned_abs_outcomes(x, NT)
            /\ y_min' = 0
            /\ y_max' = Wrap((IF abs_x' < y_limit' THEN abs_x' ELSE y_limit')
                                 + 1, uint64_t)
            /\ ret' = Ret("iroot", x, n,
                          IF unsigned_abs_overflows(x, NT)
                          THEN "signed_overflow" ELSE "none", 0, 0)
            /\ npc' = "search"
    /\ UNCHANGED <<NT, y_mid, current, result>>
    /\ UNCHANGED <<modularVars, sieveVars, boolSieveVars>>

\* iroot, the binary search: the test of the while loop and either one
\* iteration or the return statement.
IrootSearch ==
    /\ npc = "search"
    /\ IF Wrap(y_max - y_min, uint64_t) > 1
       THEN /\ y_mid' = [y |-> midpoint(y_min, y_max),
                         value |-> pow(midpoint(y_min, y_max), ret.b,
                                       uint64_t)]
            /\ IF y_mid'.value > abs_x
               THEN y_max' = y_mid'.y /\ UNCHANGED y_min
               ELSE y_min' = y_mid'.y /\ UNCHANGED y_max
            /\ UNCHANGED <<npc, ret>>
       ELSE /\ ret' = [ret EXCEPT !.x = Wrap(sign(ret.a) * Wrap(y_min, NT),
                                             NT)]
            /\ npc' = "returned"
            /\ UNCHANGED <<y_min, y_max, y_mid>>
    /\ UNCHANGED <<NT, abs_x, y_limit, current, result>>
    /\ UNCHANGED <<modularVars, sieveVars, boolSieveVars>>

\* unsigned_abs(x): any value the call can produce, and whether its
\* evaluation met the signed overflow.
UnsignedAbs(x) ==
    /\ npc = "idle"
    /\ \E v \in unsigned_abs_outcomes(x, NT) :
         ret' = Ret("unsigned_abs", x, 0,
                    IF unsigned_abs_overflows(x, NT)
                    THEN "signed_overflow" ELSE "none", v, 0)
    /\ npc' = "returned"
    /\ UNCHANGED <<NT, abs_x, y_limit, y_min, y_max, y_mid, current, result>>
    /\ UNCHANGED <<modularVars, sieveVars, boolSieveVars>>

\* binary_accumulate(binary, initial_value, operation) up to its loop.  The
\* operation appends the bit it is given to the list it accumulates, so that
\* result records every application in order; initial_value is the empty
\* list.
BinaryAccumulateCall(binary) ==
    /\ npc = "idle"
    /\ current' = binary
    /\ result' = <<>>
    /\ ret' = Ret("binary_accumulate", binary, 0, "none", 0, 0)
    /\ npc' = "accumulate"
    /\ UNCHANGED <<NT, abs_x, y_limit, y_min, y_max, y_mid>>
    /\ UNCHANGED <<modularVars, sieveVars, boolSieveVars>>

\* binary_accumulate, the test of its while loop and either one iteration or
\* the return statement; the caller counts the bits that are set (what the
\* operation "add the bit" accumulates).
BinaryAccumulateLoop ==
    /\ npc = "accumulate"
    /\ IF current # 0
       THEN /\ result' = Append(result, accumulate_bit(current))
            /\ current' = Wrap(accumulate_next(current), NT)
            /\ UNCHANGED <<npc, ret>>
       ELSE /\ ret' = [ret EXCEPT !.x = Cardinality({k \in DOMAIN result :
                                                        result[k]})]
            /\ npc' = "returned"
            /\ UNCHANGED <<current, result>>
    /\ UNCHANGED <<NT, abs_x, y_limit, y_min, y_max, y_mid>>
    /\ UNCHANGED <<modularVars, sieveVars, boolSieveVars>>

\* The caller takes the result (or catches the exception).
NumericReturn ==
    /\ npc = "returned"
    /\ npc' = "idle"
    /\ ret' = NoCall
    /\ abs_x' = 0
    /\ y_limit' = 0
    /\ y_min' = 0
    /\ y_max' = 0
    /\ y_mid' = NoPower
    /\ current' = 0
    /\ result' = <<>>
    /\ UNCHANGED NT
    /\ UNCHANGED <<modularVars, sieveVars, boolSieveVars>>

---------------------------------------------------------------------------
(* Specifications.                                                         *)

\* No sieve exists while the ring type is explored.
SieveIdle ==
    /\ header = "none"
    /\ ST = IntType(FALSE, IntWidth)
    /\ U = MultType
    /\ num_limit = 0
    /\ num_limit_ = 0
    /\ min_prime_factor_ = <<>>
    /\ primes_ = <<>>
    /\ pc = "idle"
    /\ num = 0
    /\ idx = 0
    /\ thrown = "none"
    /\ query = NoQuery
    /\ write_count = <<>>
    /\ last_write = NoWrite

\* No ring element exists while the sieve is explored.
ModularIdle ==
    /\ T = IntType(FALSE, IntWidth)
    /\ modulus = 1
    /\ value_ = [i \in Inst |-> 0]
    /\ call = Call("idle", "a", 0, 0, 0, 0, 0, "none")

\* No sieve of Eratosthenes exists.
BoolSieveIdle ==
    /\ is_prime_ = <<>>
    /\ sieve_i = 0
    /\ sieve_j = 0

\* No function of numeric.h or utility.h is running.
NumericIdle ==
    /\ NT = IntType(FALSE, IntWidth)
    /\ npc = "idle"
    /\ ret = NoCall
    /\ abs_x = 0
    /\ y_limit = 0
    /\ y_min = 0
    /\ y_max = 0
    /\ y_mid = NoPower
    /\ current = 0
    /\ result = <<>>

\* An instantiation Modular<mod> whose instances are default-constructed.
InitModular ==
    /\ T \in ModularTypes
    /\ modulus \in Moduli(T)
    /\ value_ = [i \in Inst |-> set(0, modulus)]
    /\ call = Call("construct", "a", 0, 0, 0, 0, set(0, modulus), "none")
    /\ SieveIdle
    /\ BoolSieveIdle
    /\ NumericIdle

\* Every value of the base type reaches the ring both ways: b is assigned a
\* newly constructed element, a is set in place.
NextModular ==
    \/ \E x \in RangeOf(T) : Construct("b", x)
    \/ \E x \in RangeOf(T) : Set("a", x)
    \/ \E i, j \in Inst : Assign(i, j)
    \/ \E i, j \in Inst : Add(i, j)
    \/ \E i \in Inst : Negate(i)
    \/ \E i, j \in Inst : Subtract(i, j)
    \/ \E i, j \in Inst : Multiply(i, j)
    \/ \E i \in Inst : Increment(i)
    \/ \E i \in Inst : Decrement(i)
    \/ \E i \in Inst : Inverse(i)
    \/ \E i, j \in Inst : Divide(i, j)

SpecModular == InitModular /\ [][NextModular]_vars

\* A call EulerSieve(num_limit) about to run.
InitSieve ==
    /\ header \in Headers
    /\ ST \in SieveTypes
    /\ U \in MultTypes(header)
    /\ num_limit \in Limits(ST)
    /\ num_limit_ = 0
    /\ min_prime_factor_ = <<>>
    /\ primes_ = <<>>
    /\ pc = "new"
    /\ num = 0
    /\ idx = 0
    /\ thrown = "none"
    /\ query = NoQuery
    /\ write_count = <<>>
    /\ last_write = NoWrite
    /\ ModularIdle
    /\ BoolSieveIdle
    /\ NumericIdle

NextSieve ==
    \/ SieveConstruct
    \/ SieveOuter
    \/ SieveInner
    \/ SieveNext
    \/ \E number \in RangeOf(ST) : MinPrimeFactor(number)
    \/ Return

SpecSieve == InitSieve /\ [][NextSieve]_vars

\* A call Sieve(num_limit) about to run.
InitEratosthenes ==
    /\ header = "prime.h"
    /\ ST \in SieveTypes
    /\ U = MultType
    /\ num_limit \in Limits(ST)
    /\ num_limit_ = 0
    /\ min_prime_factor_ = <<>>
    /\ primes_ = <<>>
    /\ pc = "sieve_new"
    /\ num = 0
    /\ idx = 0
    /\ thrown = "none"
    /\ query = NoQuery
    /\ write_count = <<>>
    /\ last_write = NoWrite
    /\ BoolSieveIdle
    /\ ModularIdle
    /\ NumericIdle

NextEratosthenes ==
    \/ EratosthenesConstruct
    \/ EratosthenesOuter
    \/ EratosthenesInner
    \/ \E number \in RangeOf(ST) : IsPrimeQuery(number)
    \/ EratosthenesReturn

SpecEratosthenes == InitEratosthenes /\ [][NextEratosthenes]_vars

\* A function of numeric.h or utility.h instantiated for a type, about to be
\* called.
InitNumeric ==
    /\ NT \in NumericTypes
    /\ npc = "idle"
    /\ ret = NoCall
    /\ abs_x = 0
    /\ y_limit = 0
    /\ y_min = 0
    /\ y_max = 0
    /\ y_mid = NoPower
    /\ current = 0
    /\ result = <<>>
    /\ ModularIdle
    /\ SieveIdle
    /\ BoolSieveIdle

NextNumeric ==
    \/ \E a, b \in Operands(NT) : Exgcd(a, b)
    \/ \E x \in Operands(NT), n \in -2 .. MaxRoot : IrootCall(x, n)
    \/ IrootSearch
    \/ \E binary \in Operands(NT) : BinaryAccumulateCall(binary)
    \/ BinaryAccumulateLoop
    \/ \E x \in Operands(NT) : UnsignedAbs(x)
    \/ NumericReturn

SpecNumeric == InitNumeric /\ [][NextNumeric]_vars

---------------------------------------------------------------------------
(* Properties of Modular<mod>, checked under SpecModular.                  *)

\* C1: for every instantiation and every value x of the base type
\* (negative, zero, in range, or >= modulus), Modular(x) and set(x) leave
\* get() equal to the unique y with 0 <= y < modulus and y congruent to x
\* modulo modulus.
C1_NormalizedValue ==
    call.op \in {"construct", "set"} =>
        /\ value_[call.inst] = call.res
        /\ call.res \in 0 .. modulus - 1
        /\ \E k \in -(2 ^ T.width) .. 2 ^ T.width :
              call.res = k * modulus + call.rhs
        /\ \A y \in 0 .. modulus - 1 :
              (y - call.rhs) % modulus = 0 => y = call.res

\* C1 witness: set() was given the minimum of a signed type and stored 3
\* modulo 7.
C1_Witness ==
    /\ call.op = "set"
    /\ T.signed
    /\ call.rhs = MinOf(T)
    /\ modulus = 7
    /\ value_["a"] = 3

\* C2: after any sequence of operations, the value_ of every live instance
\* satisfies 0 <= value_ < modulus.
C2_ValueInRange ==
    \A i \in Inst : value_[i] >= 0 /\ value_[i] < modulus

\* C2 witness: a decrement of 0 left modulus - 1 in the instance.
C2_Witness ==
    /\ call.op = "decrement"
    /\ call.lhs = 0
    /\ modulus > 1
    /\ value_[call.inst] = modulus - 1

\* C3: where the addition check passes, a.add(b).get() is
\* (a.get() + b.get()) mod modulus, the sum value_ + rhs.value_ is below
\* 2 * modulus and does not exceed the maximum of T, and the single
\* conditional subtraction already leaves it in [0, modulus).
C3_Add ==
    call.op = "add" =>
        /\ check_addition_overflow(modulus, T)
        /\ call.raw = call.lhs + call.rhs
        /\ call.raw < 2 * modulus
        /\ call.raw <= MaxOf(T)
        /\ call.mid \in 0 .. modulus - 1
        /\ call.mid = call.res
        /\ call.res = (call.lhs + call.rhs) % modulus
        /\ value_[call.inst] = call.res

\* C3 witness: an addition whose sum is exactly modulus, the largest modulus
\* the 4-bit unsigned type passes the check with.
C3_Witness ==
    /\ call.op = "add"
    /\ T = IntType(FALSE, 4)
    /\ modulus = 7
    /\ call.raw = modulus
    /\ call.res = 0

\* C4: where the multiplication check passes, the product
\* a.get() * b.get() fits T and a.multiply(b).get() is
\* (a.get() * b.get()) mod modulus.
C4_Multiply ==
    call.op = "multiply" =>
        /\ check_multiplication_overflow(modulus, T)
        /\ call.raw = call.lhs * call.rhs
        /\ call.raw <= MaxOf(T)
        /\ call.mid = call.raw
        /\ call.res = (call.lhs * call.rhs) % modulus
        /\ value_[call.inst] = call.res

\* C4 witness: 6 * 6 modulo 7, the largest product of the instantiation.
C4_Witness ==
    /\ call.op = "multiply"
    /\ modulus = 7
    /\ call.raw = 36
    /\ call.res = 1

\* C5: a.negate() is 0 when a is 0 and modulus - a.get() otherwise, never
\* modulus itself, and a.add(a.negate()) is 0; a.subtract(b) is
\* a.add(b.negate()) and equals (a - b) mod modulus.
C5_NegateSubtract ==
    /\ call.op = "negate" =>
          /\ call.res = IF call.lhs = 0 THEN 0 ELSE modulus - call.lhs
          /\ call.res # modulus
          /\ check_addition_overflow(modulus, T) =>
                add(call.lhs, call.res, modulus, T) = 0
    /\ call.op = "subtract" =>
          /\ call.res = add(call.lhs, negate(call.rhs, modulus, T), modulus, T)
          /\ call.res = (call.lhs - call.rhs) % modulus

\* C5 witness: 4 - 6 modulo 7 wrapped around to 5.
C5_Witness ==
    /\ call.op = "subtract"
    /\ modulus = 7
    /\ call.lhs = 4
    /\ call.rhs = 6
    /\ call.res = 5

---------------------------------------------------------------------------
(* Properties of EulerSieve, checked under SpecSieve.                      *)

IsPrime(n) == n >= 2 /\ \A d \in 2 .. n - 1 : n % d # 0
SmallestPrimeFactor(n) ==
    CHOOSE p \in 2 .. n : n % p = 0 /\ \A q \in 2 .. p - 1 : n % q # 0
Ascending(seq) == \A i \in 1 .. Len(seq) - 1 : seq[i] < seq[i + 1]
Elements(seq) == {seq[i] : i \in 1 .. Len(seq)}
Last(seq) == seq[Len(seq)]

\* C7: for every constructed sieve with limit L and every n in [2, L),
\* min_prime_factor(n) divides n, is prime, and no smaller prime divides n.
C7_MinPrimeFactor ==
    pc = "done" =>
        \A n \in 2 .. num_limit_ - 1 :
            LET r == min_prime_factor(unsigned_abs(n, ST), num_limit_,
                                      min_prime_factor_, ST, header)
            IN  /\ r.err = "none"
                /\ r.value >= 2
                /\ n % r.value = 0
                /\ IsPrime(r.value)
                /\ \A q \in 2 .. r.value - 1 : IsPrime(q) => n % q # 0

\* C7 witness: a sieve of limit 100 holding 7 for 91 = 7 * 13.
C7_Witness ==
    /\ pc = "done"
    /\ header = "sieve.h"
    /\ num_limit_ = 100
    /\ min_prime_factor_[91] = 7

C10_Lookup ==
    (pc = "queried" /\ header = "sieve.h") =>
        LET n == IF query.number < 0 THEN -query.number ELSE query.number
        IN  IF n <= 1 THEN query.err = "domain_error"
            ELSE IF n >= num_limit_ THEN query.err = "out_of_range"
            ELSE /\ query.err = "none"
                 /\ query.value = SmallestPrimeFactor(n)

Sieved == DOMAIN min_prime_factor_ \ {0, 1}

\* C17: during construction every composite of the table has its entry
\* written exactly once over the whole run, by the inner loop with prime
\* equal to its smallest prime factor and num equal to the cofactor; every
\* prime entry is written exactly once, by the outer step; the entries 0 and
\* 1 are never written; and when the outer loop reaches num, the entry of
\* num is 0 if and only if num is prime.
C17_WrittenOnce ==
    /\ \A n \in DOMAIN write_count :
          /\ write_count[n] <= 1
          /\ n \in {0, 1} => write_count[n] = 0
          /\ pc \in {"done", "queried"} /\ n >= 2 => write_count[n] = 1
    /\ last_write.by = "inner" =>
          /\ ~IsPrime(last_write.index)
          /\ last_write.index \in Sieved
          /\ last_write.prime = SmallestPrimeFactor(last_write.index)
          /\ last_write.num * last_write.prime = last_write.index
    /\ last_write.by = "outer" =>
          /\ IsPrime(last_write.index)
          /\ last_write.prime = last_write.index
    /\ (pc = "loop" /\ loop_condition(num, num_limit_, header)) =>
          (min_prime_factor_[num] = 0 <=> IsPrime(num))

\* C17 witness: the sieve of limit 100 is complete, 96 = 2 * 48 was written
\* once although 3 * 32, 4 * 24, 6 * 16 and 8 * 12 give it too, and the last
\* write of the run was that of the prime 97.
C17_Witness ==
    /\ pc = "done"
    /\ header = "sieve.h"
    /\ num_limit_ = 100
    /\ write_count[96] = 1
    /\ last_write = Write("outer", 97, 97, 97)

\* C19 as stated: for every non-negative limit that passes the overflow
\* test, limit = max(T) included, the construction terminates: the loop
\* counter num is never incremented past the maximum of T and never wraps,
\* in the inclusive loop (num <= limit) and in the exclusive one
\* (num < limit).
C19_CounterInRange ==
    (num_limit >= 0 /\ ~(2 * bit_width(num_limit) > digits(U))) =>
        /\ pc # "overrun"
        /\ pc \in {"loop", "inner", "next"} => num \in 2 .. MaxOf(ST)

---------------------------------------------------------------------------
(* Properties of Sieve, checked under SpecEratosthenes.                    *)

\* C18 as stated: for every limit >= 0, 0 included, the construction of
\* Sieve(limit) writes and reads only indices in [0, limit] of its is_prime
\* table, whose size is limit + 1; no step indexes past the end of the table.
C18_InBounds ==
    (num_limit >= 0 /\ pc # "sieve_new") =>
        /\ DOMAIN is_prime_ = 0 .. num_limit
        /\ thrown # "out_of_bounds"
        /\ pc # "undefined"
        /\ query.err # "out_of_bounds"

---------------------------------------------------------------------------
(* Properties of the functions of numeric.h and utility.h, checked under   *)
(* SpecNumeric.                                                            *)

Abs(x) == IF x < 0 THEN -x ELSE x

\* C12 as stated: for every pair (a, b) of values of an integer type, signed
\* or unsigned, zero, negative and extreme values included, exgcd(a, b)
\* raises no error and returns (x, y) with x*a + y*b = gcd(a, b).
C12_Exgcd ==
    ret.op = "exgcd" =>
        /\ ret.err = "none"
        /\ ret.x * ret.a + ret.y * ret.b = GCD(Abs(ret.a), Abs(ret.b))

\* C13 as stated: iroot(x, n) fails with a domain error whenever n <= 0
\* (n = 0 and n < 0 alike) or x < 0 and n is even, and returns no value then.
C13_DomainError ==
    (/\ ret.op = "iroot"
     /\ (ret.b <= 0 \/ (ret.a < 0 /\ ret.b % 2 = 0))) =>
        /\ npc = "returned"
        /\ ret.err = "domain_error"

\* C13 amended: iroot(x, n) fails with an invalid-argument error when n < 0
\* and with a domain error when n = 0 or when x < 0 and n > 0 is even; in
\* each of these cases it returns no value and does not start the search.
C13_ErrorPerCase ==
    (/\ ret.op = "iroot"
     /\ (ret.b <= 0 \/ (ret.a < 0 /\ ret.b % 2 = 0))) =>
        /\ npc = "returned"
        /\ y_mid = NoPower
        /\ ret.err = IF ret.b < 0 THEN "invalid_argument" ELSE "domain_error"

\* C13 witness: a negative n was refused with an invalid-argument error,
\* before the test for an even root of a negative number.
C13_Witness ==
    /\ ret.op = "iroot"
    /\ ret.a = -4
    /\ ret.b = -2
    /\ ret.err = "invalid_argument"
    /\ npc = "returned"

RECURSIVE Power(_, _)
Power(y, n) == IF n = 0 THEN 1 ELSE y * Power(y, n - 1)
\* y is the largest non-negative integer with y^n <= ax.
IsRoot(y, n, ax) == PowFits(y, n, ax) /\ ~PowFits(y + 1, n, ax)

\* iroot has returned the rounded root of its argument.
RootReturned ==
    (/\ ret.op = "iroot"
     /\ npc = "returned"
     /\ ret.b >= 1
     /\ (ret.a >= 0 \/ ret.b % 2 = 1)) =>
        /\ ret.err = "none"
        /\ ret.x = sign(ret.a) * Abs(ret.x)
        /\ IsRoot(Abs(ret.x), ret.b, Abs(ret.a))

\* The power the search has evaluated did not overflow uint64_t.
PowerExact ==
    (ret.op = "iroot" /\ y_mid # NoPower) =>
        /\ PowFits(y_mid.y, ret.b, MaxOf(uint64_t))
        /\ y_mid.value = Power(y_mid.y, ret.b)

\* Every iteration of the search narrows the interval [y_min, y_max).
SearchNarrows ==
    (npc = "search" /\ npc' = "search") =>
        /\ y_max' - y_min' < y_max - y_min
        /\ y_max' - y_min' >= 1

\* C14 as stated: for every x of a type of at most 64 bits and every n >= 1
\* for which the root exists (x >= 0 or n odd), iroot(x, n) returns
\* sign(x) * y with y the largest non-negative integer such that
\* y^n <= |x|; the search never evaluates a power y_mid^n that overflows
\* the working type, and it terminates (its interval shrinks at every
\* iteration).
C14_Iroot == [](RootReturned /\ PowerExact) /\ [][SearchNarrows]_vars

RECURSIVE Bits(_)
\* The binary digits of v >= 0, lowest first, up to its highest set bit.
Bits(v) == IF v = 0 THEN <<>> ELSE <<v % 2 = 1>> \o Bits(v \div 2)

\* The bits of the representation of binary in the type t: its digits when
\* it is not negative, its two's complement (all the bits of the type, the
\* sign bit being set) when it is negative.
Representation(binary, t) == Bits(binary % (2 ^ t.width))

\* C15 as stated: binary_accumulate applies operation exactly once per bit
\* of the binary representation of binary, from the lowest bit to the
\* highest, starting from initial_value; for a negative binary the bits are
\* those of its two's complement representation; with the operation "add
\* the bit" the result is the popcount of that representation.
C15_BinaryAccumulate ==
    /\ (ret.op = "binary_accumulate" /\ npc = "accumulate") =>
          /\ Len(result) <= Len(Representation(ret.a, NT))
          /\ result = SubSeq(Representation(ret.a, NT), 1, Len(result))
    /\ (ret.op = "binary_accumulate" /\ npc = "returned") =>
          /\ result = Representation(ret.a, NT)
          /\ ret.x = Cardinality({k \in DOMAIN Representation(ret.a, NT) :
                                     Representation(ret.a, NT)[k]})

\* C16 as stated: for every value x of every integer type T, signed or
\* unsigned, of any width, the minimum of a signed T included,
\* unsigned_abs(x) returns exactly |x| in the unsigned counterpart of T and
\* its evaluation involves no signed-integer overflow.
C16_UnsignedAbs ==
    ret.op = "unsigned_abs" =>
        /\ ret.err = "none"
        /\ ret.x = Abs(ret.a)
        /\ ret.x \in RangeOf(make_unsigned_t(NT))

===========================================================================
